---- MODULE Spec2Model ----
(***************************************************************************)
(* Model of generate-maps.py: one run of main() from argument parsing to   *)
(* process exit, with the secret stores, the two HTTP endpoints, the       *)
(* prompt, the clock and the file system as the environment.               *)
(*                                                                         *)
(* Python strings are sequences of one-character strings, so that strip(), *)
(* lower() and pathlib's suffix handling are computed, not assumed.        *)
(* An optional value (None or a string) is a record [some, val].           *)
(***************************************************************************)
EXTENDS Integers, Sequences, FiniteSets, TLC

\* ------------------------------------------------------------------ bounds
MaxNameLen == 5
MaxFields == 2
MaxMeters == 250
MaxRuns == 2
MaxClock == 3
\* clock ticks in one second: the clock is finer than the timestamp
TicksPerSecond == 2

\* ------------------------------------------------------- program constants
StatusOk == 200
MetersPerKm == 1000
PriceNum == 3
PriceDen == 10
ReturnFactor == 2
Decimals == 100

\* ----------------------------------------------------------------- strings
None == [some |-> FALSE, val |-> <<>>]
Some(s) == [some |-> TRUE, val |-> s]
\* Python truthiness of None / str
Truthy(o) == o.some /\ o.val # <<>>

IsSpace(c) == c = " "

RECURSIVE LStrip(_)
LStrip(s) == IF s # <<>> /\ IsSpace(Head(s)) THEN LStrip(Tail(s)) ELSE s

RECURSIVE RStrip(_)
RStrip(s) ==
    IF s # <<>> /\ IsSpace(s[Len(s)]) THEN RStrip(SubSeq(s, 1, Len(s) - 1)) ELSE s

\* str.strip()
Strip(s) == RStrip(LStrip(s))

LowerChar(c) ==
    CASE c = "P" -> "p"
      [] c = "D" -> "d"
      [] c = "F" -> "f"
      [] OTHER -> c

\* str.lower()
Lower(s) == [i \in 1..Len(s) |-> LowerChar(s[i])]

EndsWith(s, t) ==
    /\ Len(s) >= Len(t)
    /\ SubSeq(s, Len(s) - Len(t) + 1, Len(s)) = t

\* all strings over alphabet of length at most n
StringsUpTo(alphabet, n) == UNION {[1..k -> alphabet] : k \in 0..n}

PdfSuffix == <<".", "p", "d", "f">>

\* ------------------------------------------------------------------ pathlib
Sep == "/"

RECURSIVE SplitAcc(_, _, _)
SplitAcc(s, cur, acc) ==
    IF s = <<>> THEN Append(acc, cur)
    ELSE IF Head(s) = Sep THEN SplitAcc(Tail(s), <<>>, Append(acc, cur))
    ELSE SplitAcc(Tail(s), Append(cur, Head(s)), acc)

\* str.split("/")
Split(s) == SplitAcc(s, <<>>, <<>>)

RECURSIVE LeadingSeps(_)
LeadingSeps(s) ==
    IF s # <<>> /\ Head(s) = Sep THEN 1 + LeadingSeps(Tail(s)) ELSE 0

IsComponent(x) == x # <<>> /\ x # <<".">>

\* Path(s): the root ("", "/" or "//") and the components, with empty and "."
\* components dropped
Path(s) ==
    [root  |-> IF LeadingSeps(s) = 0 THEN <<>>
               ELSE IF LeadingSeps(s) = 2 THEN <<Sep, Sep>>
               ELSE <<Sep>>,
     parts |-> SelectSeq(Split(s), IsComponent)]

RECURSIVE Join(_)
Join(parts) ==
    IF parts = <<>> THEN <<>>
    ELSE IF Len(parts) = 1 THEN parts[1]
    ELSE parts[1] \o <<Sep>> \o Join(Tail(parts))

\* str(path)
PathStr(p) ==
    IF p.root = <<>> /\ p.parts = <<>> THEN <<".">> ELSE p.root \o Join(p.parts)

\* path.name
PathName(p) == IF p.parts = <<>> THEN <<>> ELSE p.parts[Len(p.parts)]

RECURSIVE RFindDot(_)
\* 1-based index of the last "." of name, 0 when there is none
RFindDot(name) ==
    IF name = <<>> THEN 0
    ELSE IF name[Len(name)] = "." THEN Len(name)
    ELSE RFindDot(SubSeq(name, 1, Len(name) - 1))

\* path.suffix: from the last dot, unless that dot is the first or the last
\* character of the name
PathSuffix(p) ==
    LET name == PathName(p)
        i == RFindDot(name)
    IN IF 1 < i /\ i < Len(name) THEN SubSeq(name, i, Len(name)) ELSE <<>>

\* path.with_suffix(suffix); defined only when the path has a name
WithSuffix(p, suffix) ==
    LET name == PathName(p)
        old == PathSuffix(p)
        stem == SubSeq(name, 1, Len(name) - Len(old))
    IN [root |-> p.root,
        parts |-> SubSeq(p.parts, 1, Len(p.parts) - 1) \o <<stem \o suffix>>]

\* ------------------------------------------------------------- fixed-point
\* The floats of create_pdf are kept as exact fractions num/den.  The double
\* nearest to such a value is within a few units of 2^-53 of it (relative),
\* far closer than the distance of any non-tie value to a rounding boundary
\* at two decimals, so "%.2f" is decided by the fraction except on exact
\* decimal ties, where the binary representation error decides: there both
\* neighbours are possible renderings.
Rat(n, d) == [num |-> n, den |-> d]
RatMul(x, y) == Rat(x.num * y.num, x.den * y.den)

\* the meters are taken for kilometers
DistanceKm_NoConversion(meters) == Rat(meters, 1)

\* leg["distance"]["value"] / 1000
DistanceKm(meters) == Rat(meters, MetersPerKm)

\* price_per_km = 0.3
PricePerKm == Rat(PriceNum, PriceDen)

\* distance * price_per_km
EstimatedCost(distance) == RatMul(distance, PricePerKm)

\* estimated_cost * 2
ReturnTripCost(cost) == RatMul(cost, Rat(ReturnFactor, 1))

\* f"{x:.2f}": the possible renderings of x, in hundredths
Format2(x) ==
    LET n == x.num * Decimals
        q == n \div x.den
        r2 == 2 * (n % x.den)
    IN IF r2 < x.den THEN {q}
       ELSE IF r2 > x.den THEN {q + 1}
       ELSE {q, q + 1}

\* -------------------------------------------------------------------- clock
DigitChars == <<"0", "1", "2", "3", "4", "5", "6", "7", "8", "9">>

RECURSIVE Digits(_)
Digits(n) ==
    IF n < 10 THEN <<DigitChars[n + 1]>>
    ELSE Digits(n \div 10) \o <<DigitChars[(n % 10) + 1]>>

\* datetime.now().strftime("%Y-%m-%dT%H-%M-%S"): the clock cut to whole seconds
Strftime(t) == Digits(t \div TicksPerSecond)

\* f"route_map_{timestamp}.pdf"
AutoName(t) ==
    <<"r", "o", "u", "t", "e", "_", "m", "a", "p", "_">> \o Strftime(t) \o PdfSuffix

\* --------------------------------------------------------------------- state
VARIABLES
    pc,              \* position of the run in main / create_pdf
    run,             \* number of the run (process) in progress
    keeper_available,\* KEEPER_AVAILABLE, set by the import at lines 16-21
    args,            \* the argparse namespace
    record,          \* the Keeper record fetched by api.get_record
    api_key,         \* api_key of main
    output_file,     \* output_file of main, then of create_pdf
    response,        \* status_code and text of the last HTTP response
    distance,        \* distance, estimated_cost, return_trip_cost of create_pdf
    estimated_cost,
    return_trip_cost,
    map_image,       \* what generate_map_with_route returned
    pdf,             \* the FPDF document being built
    stdout,          \* lines printed
    error,           \* the exception or parser error that ended the run
    exit_status,     \* process exit status, -1 while the run is in progress
    log,             \* external calls the run has made, in order
    done,            \* the stages that have succeeded, in order
    now,             \* wall clock, in ticks
    temp_files,      \* temporary files on disk
    documents,       \* output documents on disk, with the run that wrote each
    auto_names       \* the generated output names, with the run that made each

vars == <<pc, run, keeper_available, args, record, api_key, output_file, response,
          distance, estimated_cost, return_trip_cost, map_image, pdf, stdout,
          error, exit_status, log, done, now, temp_files, documents, auto_names>>

\* variables of one run
runVars == <<args, record, api_key, output_file, response, distance, estimated_cost,
             return_trip_cost, map_image, pdf, stdout>>
\* variables that outlive a run
worldVars == <<run, keeper_available, now, temp_files, documents, auto_names>>

NoArgs == [keeper_uid |-> None, username |-> None, keychain_service |-> None,
           output |-> None]
NoRecord == [password |-> None, notes |-> None, custom_fields |-> <<>>]
NoResponse == [status_code |-> 0, text |-> "", json |-> FALSE, has_routes |-> FALSE,
               routes |-> <<>>, image |-> FALSE]
NoError == [type |-> "", what |-> "", status |-> 0, body |-> ""]
NoPdf == [cells |-> <<>>, image |-> FALSE]
Zero == Rat(0, 1)

\* a fresh process at the top of main
ProcessStart ==
    /\ pc = "parse_args"
    /\ args = NoArgs
    /\ record = NoRecord
    /\ api_key = None
    /\ output_file = None
    /\ response = NoResponse
    /\ distance = Zero
    /\ estimated_cost = Zero
    /\ return_trip_cost = Zero
    /\ map_image = "none"
    /\ pdf = NoPdf
    /\ stdout = <<>>
    /\ error = NoError
    /\ exit_status = -1
    /\ log = <<>>
    /\ done = <<>>

EmptyDisk ==
    /\ run = 1
    /\ now = 0
    /\ temp_files = {}
    /\ documents = {}
    /\ auto_names = {}

Init ==
    /\ ProcessStart
    /\ EmptyDisk
    /\ keeper_available \in BOOLEAN

\* the exception is caught and the run ends normally
Raise_Swallowed(type, what, status, body, code) ==
    /\ error' = [type |-> type, what |-> what, status |-> status, body |-> body]
    /\ exit_status' = 0
    /\ pc' = "exit"

\* an uncaught exception, or parser.error: the run ends with a non-zero status
Raise(type, what, status, body, code) ==
    /\ error' = [type |-> type, what |-> what, status |-> status, body |-> body]
    /\ exit_status' = code
    /\ pc' = "exit"

\* ---------------------------------------------------------------- main: args
\* parser.parse_args() without --origin or --destination: usage error, exit 2
ParseArgsFail ==
    /\ pc = "parse_args"
    /\ Raise("SystemExit", "the following arguments are required", 0, "", 2)
    /\ UNCHANGED <<runVars, worldVars, log>>
    /\ UNCHANGED done

\* parser.parse_args() with the credential options from creds and --output
\* from names
ParseArgs(creds, names) ==
    /\ pc = "parse_args"
    /\ \E c \in creds, o \in names :
          args' = [keeper_uid |-> c.keeper_uid, username |-> c.username,
                   keychain_service |-> c.keychain_service, output |-> o]
    /\ pc' = "credentials"
    /\ UNCHANGED <<record, api_key, output_file, response, distance, estimated_cost,
                   return_trip_cost, map_image, pdf, stdout, error, exit_status,
                   log, worldVars>>
    /\ UNCHANGED done

\* ------------------------------------------------- get_api_key_from_keeper
FreeTextTypes == {"note", "text", "multiline"}

IsSecretField(field) == field.type \in FreeTextTypes /\ field.value # <<>>

\* the notes are tried before the password
ExtractSecret_NotesFirst(rec) ==
    LET hits == SelectSeq(rec.custom_fields, IsSecretField)
    IN IF Truthy(rec.notes) /\ Strip(rec.notes.val) # <<>>
       THEN [found |-> TRUE, key |-> Strip(rec.notes.val)]
       ELSE IF Truthy(rec.password) THEN [found |-> TRUE, key |-> rec.password.val]
       ELSE IF hits # <<>> THEN [found |-> TRUE, key |-> hits[1].value]
       ELSE [found |-> FALSE, key |-> <<>>]

\* the secret get_api_key_from_keeper extracts from a record that was found:
\* [found, key]
ExtractSecret(rec) ==
    LET hits == SelectSeq(rec.custom_fields, IsSecretField)
    IN IF Truthy(rec.password) THEN [found |-> TRUE, key |-> rec.password.val]
       ELSE IF Truthy(rec.notes) /\ Strip(rec.notes.val) # <<>>
            THEN [found |-> TRUE, key |-> Strip(rec.notes.val)]
       ELSE IF hits # <<>> THEN [found |-> TRUE, key |-> hits[1].value]
       ELSE [found |-> FALSE, key |-> <<>>]

UseKeeper == pc = "credentials" /\ Truthy(args.keeper_uid)

\* line 38: the SDK import failed
KeeperUnavailable ==
    /\ UseKeeper
    /\ ~keeper_available
    /\ log' = Append(log, "keeper")
    /\ Raise("Exception", "Keeper Commander SDK is not installed", 0, "", 1)
    /\ UNCHANGED <<runVars, worldVars>>
    /\ UNCHANGED done

\* line 42: no ~/.keeper/config.json
KeeperConfigMissing ==
    /\ UseKeeper
    /\ keeper_available
    /\ log' = Append(log, "keeper")
    /\ Raise("Exception", "Keeper config not found", 0, "", 1)
    /\ UNCHANGED <<runVars, worldVars>>
    /\ UNCHANGED done

\* lines 46-48: get_params_from_config, api.login or api.sync_down raises
KeeperLoginFails ==
    /\ UseKeeper
    /\ keeper_available
    /\ log' = Append(log, "keeper")
    /\ Raise("KeeperError", "login failed", 0, "", 1)
    /\ UNCHANGED <<runVars, worldVars>>
    /\ UNCHANGED done

\* line 52: api.get_record returned nothing
KeeperRecordNotFound ==
    /\ UseKeeper
    /\ keeper_available
    /\ log' = Append(log, "keeper")
    /\ Raise("Exception", "Record not found", 0, "", 1)
    /\ UNCHANGED <<runVars, worldVars>>
    /\ UNCHANGED done

\* lines 51-70: the record was found, among records
KeeperRecord(records) ==
    /\ UseKeeper
    /\ keeper_available
    /\ log' = Append(log, "keeper")
    /\ \E rec \in records :
          /\ record' = rec
          /\ IF ExtractSecret(rec).found
             THEN /\ api_key' = Some(ExtractSecret(rec).key)
                  /\ done' = Append(done, "credential")
                  /\ pc' = "output"
                  /\ UNCHANGED <<error, exit_status>>
             ELSE /\ Raise("Exception", "Could not find password or note in Keeper record",
                           0, "", 1)
                  /\ UNCHANGED <<api_key, done>>
    /\ UNCHANGED <<args, output_file, response, distance, estimated_cost,
                   return_trip_cost, map_image, pdf, stdout, worldVars>>

\* ----------------------------------------------- get_api_key_from_keychain
\* the local pair is tried whatever --keeper-uid says
UseKeychain_AnyUid ==
    /\ pc = "credentials"
    /\ Truthy(args.username) /\ Truthy(args.keychain_service)

\* one option of the local pair is enough
UseKeychain_EitherOption ==
    /\ pc = "credentials"
    /\ ~Truthy(args.keeper_uid)
    /\ Truthy(args.username) \/ Truthy(args.keychain_service)

\* lines 169-170
UseKeychain ==
    /\ pc = "credentials"
    /\ ~Truthy(args.keeper_uid)
    /\ Truthy(args.username) /\ Truthy(args.keychain_service)

\* what `security find-generic-password -w` may print for an entry it finds
KeychainStdout == {<<"k", " ">>, <<" ">>}

\* lines 26-32: the entry is found, result.stdout.strip() is the key
KeychainFound ==
    /\ UseKeychain
    /\ log' = Append(log, "keychain")
    /\ \E out \in KeychainStdout : api_key' = Some(Strip(out))
    /\ done' = Append(done, "credential")
    /\ pc' = "output"
    /\ UNCHANGED <<args, record, output_file, response, distance, estimated_cost,
                   return_trip_cost, map_image, pdf, stdout, error, exit_status,
                   worldVars>>

\* lines 33-34: security exits non-zero
KeychainFails ==
    /\ UseKeychain
    /\ log' = Append(log, "keychain")
    /\ Raise("Exception", "Failed to retrieve API key", 0, "", 1)
    /\ UNCHANGED <<runVars, worldVars>>
    /\ UNCHANGED done

\* line 172: neither source is complete
MissingCredentialSource ==
    /\ pc = "credentials"
    /\ ~Truthy(args.keeper_uid)
    /\ ~(Truthy(args.username) /\ Truthy(args.keychain_service))
    /\ Raise("SystemExit", "You must provide either --keeper-uid OR both --username and --keychain_service",
             0, "", 2)
    /\ UNCHANGED <<runVars, worldVars, log>>
    /\ UNCHANGED done

\* ------------------------------------------------------ main: output name
\* line 175: --output was given and is not empty
TakeOutputArg ==
    /\ pc = "output"
    /\ Truthy(args.output)
    /\ output_file' = args.output
    /\ pc' = "validate"
    /\ UNCHANGED <<args, record, api_key, response, distance, estimated_cost,
                   return_trip_cost, map_image, pdf, stdout, error, exit_status,
                   log, worldVars>>
    /\ UNCHANGED done

\* lines 177-178: input() returns a line among lines
PromptOutput(lines) ==
    /\ pc = "output"
    /\ ~Truthy(args.output)
    /\ log' = Append(log, "prompt")
    /\ \E line \in lines :
          output_file' = IF Strip(line) = <<>> THEN None ELSE Some(Strip(line))
    /\ pc' = "validate"
    /\ UNCHANGED <<args, record, api_key, response, distance, estimated_cost,
                   return_trip_cost, map_image, pdf, stdout, error, exit_status,
                   worldVars>>
    /\ UNCHANGED done

\* line 177: input() at end of file
PromptEOF ==
    /\ pc = "output"
    /\ ~Truthy(args.output)
    /\ log' = Append(log, "prompt")
    /\ Raise("EOFError", "EOF when reading a line", 0, "", 1)
    /\ UNCHANGED <<runVars, worldVars>>
    /\ UNCHANGED done

Notice(name) == [text |-> "Output filename changed to: ", file |-> name]

\* the suffix is compared as typed, without lower()
NeedsRewrite_CaseSensitive(name) == PathSuffix(Path(name)) # PdfSuffix

\* line 183: output_path.suffix.lower() != '.pdf'
NeedsRewrite(name) == Lower(PathSuffix(Path(name))) # PdfSuffix

\* line 184: str(output_path.with_suffix('.pdf'))
NormalizeOutput(name) == PathStr(WithSuffix(Path(name), PdfSuffix))

\* lines 181-185
ValidateOutput ==
    /\ pc = "validate"
    /\ IF ~Truthy(output_file)
       THEN /\ pc' = "create_pdf"
            /\ UNCHANGED <<output_file, stdout, error, exit_status>>
       ELSE IF ~NeedsRewrite(output_file.val)
       THEN /\ pc' = "create_pdf"
            /\ UNCHANGED <<output_file, stdout, error, exit_status>>
       ELSE IF PathName(Path(output_file.val)) = <<>>
       THEN \* with_suffix raises on a path without a name
            /\ Raise("ValueError", "has an empty name", 0, "", 1)
            /\ UNCHANGED <<output_file, stdout>>
       ELSE /\ output_file' = Some(NormalizeOutput(output_file.val))
            /\ stdout' = Append(stdout, Notice(NormalizeOutput(output_file.val)))
            /\ pc' = "create_pdf"
            /\ UNCHANGED <<error, exit_status>>
    /\ UNCHANGED <<args, record, api_key, response, distance, estimated_cost,
                   return_trip_cost, map_image, pdf, log, worldVars>>
    /\ UNCHANGED done

\* ------------------------------------------------------------- create_pdf
Min(a, b) == IF a < b THEN a ELSE b

\* lines 113-115: the default name, from the clock as it reads now
DefaultName ==
    /\ pc = "create_pdf"
    /\ IF output_file.some
       THEN UNCHANGED <<output_file, now, auto_names>>
       ELSE \E t \in now..Min(now + TicksPerSecond, MaxClock) :
               /\ now' = t
               /\ output_file' = Some(AutoName(t))
               /\ auto_names' = auto_names \cup {[run |-> run, name |-> AutoName(t)]}
    /\ pc' = "directions"
    /\ UNCHANGED <<args, record, api_key, response, distance, estimated_cost,
                   return_trip_cost, map_image, pdf, stdout, error, exit_status,
                   log, run, keeper_available, temp_files, documents>>
    /\ UNCHANGED done

\* HTTP statuses and bodies of failed requests
ErrorStatuses == {403, 500}
ErrorBodies == {"denied", "unavailable"}

\* an HTTP response: its status and text, and what the body holds
Response(st, text, json, has_routes, routes, image) ==
    [status_code |-> st, text |-> text, json |-> json, has_routes |-> has_routes,
     routes |-> routes, image |-> image]

FailedResponses ==
    {Response(st, b, FALSE, FALSE, <<>>, FALSE) : st \in ErrorStatuses, b \in ErrorBodies}

\* the answers of the directions endpoint: a failure status, or 200 with a
\* body that is no JSON, has no "routes", has an empty "routes", or has one
\* route whose first leg is m meters long
DirectionsResponses(meters) ==
    FailedResponses
    \cup {Response(StatusOk, "html", FALSE, FALSE, <<>>, FALSE),
          Response(StatusOk, "{}", TRUE, FALSE, <<>>, FALSE),
          Response(StatusOk, "{routes: []}", TRUE, TRUE, <<>>, FALSE)}
    \cup {Response(StatusOk, "{routes: [..]}", TRUE, TRUE, <<m>>, FALSE) : m \in meters}

\* the answers of the static map endpoint: a failure status, or 200 with
\* bytes that are an image or are not
StaticMapResponses ==
    FailedResponses
    \cup {Response(StatusOk, "bytes", FALSE, FALSE, <<>>, img) : img \in BOOLEAN}

\* only server errors are taken for failures
IsFailure_ServerOnly(resp) == resp.status_code >= 500

\* lines 82 and 106: response.status_code != 200
IsFailure(resp) == resp.status_code # StatusOk

\* only a missing "routes" key is checked
NoRoutes_KeyOnly(resp) == ~resp.has_routes

\* line 86: data.get("routes") is falsy
NoRoutes(resp) == ~resp.has_routes \/ resp.routes = <<>>

\* lines 74-80: requests.get raises (timeout, connection error)
DirectionsUnreachable ==
    /\ pc = "directions"
    /\ log' = Append(log, "directions")
    /\ Raise("RequestException", "directions request failed", 0, "", 1)
    /\ UNCHANGED <<runVars, worldVars>>
    /\ UNCHANGED done

\* lines 72-94: get_route_and_distance on an answer among
\* DirectionsResponses(meters)
GetRouteAndDistance(meters) ==
    /\ pc = "directions"
    /\ log' = Append(log, "directions")
    /\ \E resp \in DirectionsResponses(meters) :
          /\ response' = resp
          /\ IF IsFailure(resp)
             THEN /\ Raise("Exception", "Error fetching directions",
                           resp.status_code, resp.text, 1)
                  /\ UNCHANGED <<distance, done>>
             ELSE IF ~resp.json
             THEN /\ Raise("JSONDecodeError", "response is not JSON", 0, "", 1)
                  /\ UNCHANGED <<distance, done>>
             ELSE IF NoRoutes(resp)
             THEN /\ Raise("Exception", "No routes found", 0, resp.text, 1)
                  /\ UNCHANGED <<distance, done>>
             ELSE IF resp.routes = <<>>
             THEN \* line 89 on a body without a first route
                  /\ Raise("LookupError", "routes", 0, "", 1)
                  /\ UNCHANGED <<distance, done>>
             ELSE /\ distance' = DistanceKm(resp.routes[1])
                  /\ done' = Append(done, "directions")
                  /\ pc' = "cost"
                  /\ UNCHANGED <<error, exit_status>>
    /\ UNCHANGED <<args, record, api_key, output_file, estimated_cost,
                   return_trip_cost, map_image, pdf, stdout, worldVars>>

\* lines 119-121
ComputeCost ==
    /\ pc = "cost"
    /\ estimated_cost' = EstimatedCost(distance)
    /\ return_trip_cost' = ReturnTripCost(EstimatedCost(distance))
    /\ pc' = "static_map"
    /\ UNCHANGED <<args, record, api_key, output_file, response, distance, map_image,
                   pdf, stdout, error, exit_status, log, worldVars>>
    /\ UNCHANGED done

\* lines 98-104: requests.get raises
StaticMapUnreachable ==
    /\ pc = "static_map"
    /\ log' = Append(log, "staticmap")
    /\ Raise("RequestException", "static map request failed", 0, "", 1)
    /\ UNCHANGED <<runVars, worldVars>>
    /\ UNCHANGED done

\* lines 96-109: generate_map_with_route on an answer among StaticMapResponses
GenerateMapWithRoute ==
    /\ pc = "static_map"
    /\ log' = Append(log, "staticmap")
    /\ \E resp \in StaticMapResponses :
          /\ response' = resp
          /\ IF IsFailure(resp)
             THEN /\ Raise("Exception", "Error generating map",
                           resp.status_code, resp.text, 1)
                  /\ UNCHANGED <<map_image, done>>
             ELSE /\ map_image' = IF resp.image THEN "png" ELSE "garbage"
                  /\ done' = Append(done, "static_map")
                  /\ pc' = "layout"
                  /\ UNCHANGED <<error, exit_status>>
    /\ UNCHANGED <<args, record, api_key, output_file, distance, estimated_cost,
                   return_trip_cost, pdf, stdout, worldVars>>

\* lines 127-137: a cell raises (a character the core font cannot encode)
LayoutFails ==
    /\ pc = "layout"
    /\ Raise("FPDFException", "cell could not be rendered", 0, "", 1)
    /\ UNCHANGED <<runVars, worldVars, log>>
    /\ UNCHANGED done

\* lines 127-137: the six text cells, the three numbers to two decimals
AddRouteInformation ==
    /\ pc = "layout"
    /\ \E d \in Format2(distance), c \in Format2(estimated_cost),
          r \in Format2(return_trip_cost) :
          pdf' = [pdf EXCEPT !.cells = <<d, c, r>>]
    /\ pc' = "temp_file"
    /\ UNCHANGED <<args, record, api_key, output_file, response, distance,
                   estimated_cost, return_trip_cost, map_image, stdout, error,
                   exit_status, log, worldVars>>
    /\ UNCHANGED done

\* line 140: NamedTemporaryFile raises, no file is made
TempFileFails ==
    /\ pc = "temp_file"
    /\ Raise("OSError", "no temporary file", 0, "", 1)
    /\ UNCHANGED <<runVars, worldVars, log>>
    /\ UNCHANGED done

\* lines 140-141: NamedTemporaryFile(suffix=".png", delete=False)
CreateTempFile ==
    /\ pc = "temp_file"
    /\ temp_files' = temp_files \cup {run}
    /\ log' = Append(log, "tempfile")
    /\ pc' = "save_image"
    /\ UNCHANGED <<runVars, error, exit_status, run, keeper_available, now,
                   documents, auto_names>>
    /\ UNCHANGED done

\* what leaving the with block of line 140 does to the file: it is closed,
\* and with delete=False it stays
WithExit(files) == files

\* line 142 raises: the bytes are no image, or the save fails
SaveImageFails ==
    /\ pc = "save_image"
    /\ temp_files' = WithExit(temp_files)
    /\ Raise("ImageError", "cannot decode or save the image", 0, "", 1)
    /\ UNCHANGED <<runVars, run, keeper_available, now, documents, auto_names, log>>
    /\ UNCHANGED done

\* line 142: Image.open(map_image).save(temp_map_filename)
SaveImage ==
    /\ pc = "save_image"
    /\ map_image = "png"
    /\ pc' = "pdf_image"
    /\ UNCHANGED <<runVars, worldVars, error, exit_status, log>>
    /\ UNCHANGED done

\* line 143 raises
PdfImageFails ==
    /\ pc = "pdf_image"
    /\ temp_files' = WithExit(temp_files)
    /\ Raise("FPDFException", "image could not be embedded", 0, "", 1)
    /\ UNCHANGED <<runVars, run, keeper_available, now, documents, auto_names, log>>
    /\ UNCHANGED done

\* line 143: pdf.image(temp_map_filename, ...)
PdfImage ==
    /\ pc = "pdf_image"
    /\ pdf' = [pdf EXCEPT !.image = TRUE]
    /\ pc' = "unlink"
    /\ UNCHANGED <<args, record, api_key, output_file, response, distance,
                   estimated_cost, return_trip_cost, map_image, stdout, error,
                   exit_status, log, worldVars>>
    /\ UNCHANGED done

\* line 144: os.unlink(temp_map_filename), after the with block
Unlink ==
    /\ pc = "unlink"
    /\ temp_files' = WithExit(temp_files) \ {run}
    /\ pc' = "pdf_output"
    /\ UNCHANGED <<runVars, error, exit_status, log, run, keeper_available, now,
                   documents, auto_names>>
    /\ UNCHANGED done

\* lines 147-153: pdf.output raises, nothing is written
PdfOutputFails ==
    /\ pc = "pdf_output"
    /\ log' = Append(log, "pdf_output")
    /\ Raise("OSError", "cannot write the document", 0, "", 1)
    /\ UNCHANGED <<runVars, worldVars>>
    /\ UNCHANGED done

\* the disk after pdf.output(path) by run r: the file is created or replaced
WriteDocument(docs, path, r) ==
    {d \in docs : d.path # path} \cup {[path |-> path, run |-> r]}

\* lines 147-153: the footer, then pdf.output(output_file)
PdfOutput ==
    /\ pc = "pdf_output"
    /\ log' = Append(log, "pdf_output")
    /\ documents' = WriteDocument(documents, output_file.val, run)
    /\ done' = Append(done, "document")
    /\ pc' = "print"
    /\ UNCHANGED <<runVars, error, exit_status, run, keeper_available, now,
                   temp_files, auto_names>>

Generated(name) == [text |-> "PDF generated: ", file |-> name]

\* line 154, then main returns and the interpreter exits with status 0
PrintGenerated ==
    /\ pc = "print"
    /\ stdout' = Append(stdout, Generated(output_file.val))
    /\ exit_status' = 0
    /\ pc' = "exit"
    /\ UNCHANGED <<args, record, api_key, output_file, response, distance,
                   estimated_cost, return_trip_cost, map_image, pdf, error, log,
                   worldVars>>
    /\ UNCHANGED done

\* ------------------------------------------------------------ input domains
OptStrings(c) == {None, Some(<<>>), Some(<<c>>)}

\* every way of giving or omitting the three credential options
Credentials ==
    [keeper_uid : OptStrings("U"), username : OptStrings("u"),
     keychain_service : OptStrings("s")]

\* a complete local pair and no vault record
KeychainOnly ==
    {[keeper_uid |-> None, username |-> Some(<<"u">>),
      keychain_service |-> Some(<<"s">>)]}

SampleNames ==
    {None, Some(<<>>), Some(<<"d", ".", "d">>), Some(<<"d", ".", "p", "d", "f">>),
     Some(<<"d", ".", "P", "D", "F">>), Some(<<".">>)}

SampleLines == {<<>>, <<" ">>, <<" ", "d", " ">>}

SampleRecords ==
    {[password |-> Some(<<"p">>), notes |-> None, custom_fields |-> <<>>],
     [password |-> None, notes |-> Some(<<" ", "n">>), custom_fields |-> <<>>],
     [password |-> Some(<<>>), notes |-> Some(<<" ">>),
      custom_fields |-> <<[type |-> "secret", value |-> <<"c">>]>>]}

SampleMeters == {0, 12345}

\* ------------------------------------------------------------ specification
Next ==
    \/ ParseArgsFail
    \/ ParseArgs(Credentials, SampleNames)
    \/ KeeperUnavailable
    \/ KeeperConfigMissing
    \/ KeeperLoginFails
    \/ KeeperRecordNotFound
    \/ KeeperRecord(SampleRecords)
    \/ KeychainFound
    \/ KeychainFails
    \/ MissingCredentialSource
    \/ TakeOutputArg
    \/ PromptOutput(SampleLines)
    \/ PromptEOF
    \/ ValidateOutput
    \/ DefaultName
    \/ DirectionsUnreachable
    \/ GetRouteAndDistance(SampleMeters)
    \/ ComputeCost
    \/ StaticMapUnreachable
    \/ GenerateMapWithRoute
    \/ LayoutFails
    \/ AddRouteInformation
    \/ TempFileFails
    \/ CreateTempFile
    \/ SaveImageFails
    \/ SaveImage
    \/ PdfImageFails
    \/ PdfImage
    \/ Unlink
    \/ PdfOutputFails
    \/ PdfOutput
    \/ PrintGenerated

Spec == Init /\ [][Next]_vars

\* every call returns or raises, so a run that can take a step takes one
FairSpec == Spec /\ WF_vars(Next)

\* ----------------------------------------------- output names, exhaustively
\* The part of main that settles the output name (lines 174-187), from the
\* state a run is in once the key has been read from the keychain, for every
\* name over NameAlphabet up to MaxNameLen characters.
NameAlphabet == {".", "p", "d", "f", "P", Sep, " "}
AllNames == StringsUpTo(NameAlphabet, MaxNameLen)

InitName ==
    /\ pc = "output"
    /\ args \in [keeper_uid : {None}, username : {Some(<<"u">>)},
                 keychain_service : {Some(<<"s">>)},
                 output : {None} \cup {Some(n) : n \in AllNames}]
    /\ record = NoRecord
    /\ api_key = Some(<<"k">>)
    /\ output_file = None
    /\ response = NoResponse
    /\ distance = Zero
    /\ estimated_cost = Zero
    /\ return_trip_cost = Zero
    /\ map_image = "none"
    /\ pdf = NoPdf
    /\ stdout = <<>>
    /\ error = NoError
    /\ exit_status = -1
    /\ log = <<"keychain">>
    /\ done = <<"credential">>
    /\ EmptyDisk
    /\ keeper_available = TRUE

NextName ==
    \/ TakeOutputArg
    \/ PromptOutput(AllNames)
    \/ PromptEOF
    \/ ValidateOutput

SpecName == InitName /\ [][NextName]_vars

\* ---------------------------------------------- vault records, exhaustively
\* get_api_key_from_keeper alone, on every record with up to MaxFields custom
\* fields.
PasswordValues == {None, Some(<<>>), Some(<<" ">>), Some(<<"p">>)}
NotesValues == {None, Some(<<>>), Some(<<" ">>), Some(<<"n">>), Some(<<" ", "n", " ">>)}
FieldTypes == FreeTextTypes \cup {"secret"}
FieldValues == {<<>>, <<" ">>, <<"c">>, <<"d">>}
CustomFields == [type : FieldTypes, value : FieldValues]
AllRecords ==
    [password : PasswordValues, notes : NotesValues,
     custom_fields : UNION {[1..k -> CustomFields] : k \in 0..MaxFields}]

InitKeeper ==
    /\ pc = "credentials"
    /\ args = [keeper_uid |-> Some(<<"U">>), username |-> None,
               keychain_service |-> None, output |-> None]
    /\ record = NoRecord
    /\ api_key = None
    /\ output_file = None
    /\ response = NoResponse
    /\ distance = Zero
    /\ estimated_cost = Zero
    /\ return_trip_cost = Zero
    /\ map_image = "none"
    /\ pdf = NoPdf
    /\ stdout = <<>>
    /\ error = NoError
    /\ exit_status = -1
    /\ log = <<>>
    /\ done = <<>>
    /\ EmptyDisk
    /\ keeper_available \in BOOLEAN

NextKeeper ==
    \/ KeeperUnavailable
    \/ KeeperConfigMissing
    \/ KeeperLoginFails
    \/ KeeperRecordNotFound
    \/ KeeperRecord(AllRecords)

SpecKeeper == InitKeeper /\ [][NextKeeper]_vars

\* ------------------------------------------------- distances, exhaustively
\* create_pdf from the directions call to the text cells, for every leg
\* distance up to MaxMeters.
AllMeters == 0..MaxMeters

InitCost ==
    /\ pc = "directions"
    /\ args = [keeper_uid |-> None, username |-> Some(<<"u">>),
               keychain_service |-> Some(<<"s">>),
               output |-> Some(<<"d", ".", "p", "d", "f">>)]
    /\ record = NoRecord
    /\ api_key = Some(<<"k">>)
    /\ output_file = Some(<<"d", ".", "p", "d", "f">>)
    /\ response = NoResponse
    /\ distance = Zero
    /\ estimated_cost = Zero
    /\ return_trip_cost = Zero
    /\ map_image = "none"
    /\ pdf = NoPdf
    /\ stdout = <<>>
    /\ error = NoError
    /\ exit_status = -1
    /\ log = <<"keychain">>
    /\ done = <<"credential">>
    /\ EmptyDisk
    /\ keeper_available = TRUE

NextCost ==
    \/ GetRouteAndDistance(AllMeters)
    \/ ComputeCost
    \/ GenerateMapWithRoute
    \/ AddRouteInformation

SpecCost == InitCost /\ [][NextCost]_vars

\* ------------------------------------------------------------ several runs
\* Runs of the program one after another on the same disk and clock, each
\* with a complete local pair, no --output and an empty line at the prompt.
StartRun ==
    /\ pc = "exit"
    /\ run < MaxRuns
    /\ run' = run + 1
    /\ pc' = "parse_args"
    /\ args' = NoArgs
    /\ record' = NoRecord
    /\ api_key' = None
    /\ output_file' = None
    /\ response' = NoResponse
    /\ distance' = Zero
    /\ estimated_cost' = Zero
    /\ return_trip_cost' = Zero
    /\ map_image' = "none"
    /\ pdf' = NoPdf
    /\ stdout' = <<>>
    /\ error' = NoError
    /\ exit_status' = -1
    /\ log' = <<>>
    /\ done' = <<>>
    /\ UNCHANGED <<keeper_available, now, temp_files, documents, auto_names>>

BlankLines == {<<>>, <<" ">>}

NextRuns ==
    \/ StartRun
    \/ ParseArgs(KeychainOnly, {None})
    \/ KeychainFound
    \/ PromptOutput(BlankLines)
    \/ ValidateOutput
    \/ DefaultName
    \/ GetRouteAndDistance({MetersPerKm})
    \/ ComputeCost
    \/ GenerateMapWithRoute
    \/ AddRouteInformation
    \/ CreateTempFile
    \/ SaveImageFails
    \/ SaveImage
    \/ PdfImage
    \/ Unlink
    \/ PdfOutput
    \/ PrintGenerated

SpecRuns == Init /\ [][NextRuns]_vars

\* ------------------------------------------------------------------ claims
Range(seq) == {seq[i] : i \in DOMAIN seq}
Count(seq, x) == Cardinality({i \in DOMAIN seq : seq[i] = x})
Ended == pc = "exit"

\* C1: once a run has ended, the temporary PNG file it created is no longer
\* on disk, whichever way the run ended after the image was fetched.
C1_NoTempFileAfterRun == Ended => run \notin temp_files

\* C2: with --keeper-uid given together with both --username and
\* --keychain_service, the key is resolved through get_api_key_from_keeper
\* only: get_api_key_from_keychain is never invoked, also when the vault
\* lookup fails.
BothSourcesGiven ==
    /\ Truthy(args.keeper_uid)
    /\ Truthy(args.username)
    /\ Truthy(args.keychain_service)

\* C2: with both sources given, only get_api_key_from_keeper is invoked.
C2_VaultExclusive ==
    BothSourcesGiven =>
        /\ "keychain" \notin Range(log)
        /\ pc # "credentials" => "keeper" \in Range(log)
        /\ api_key.some => done[1] = "credential" /\ log[1] = "keeper"

C2_Witness ==
    /\ BothSourcesGiven
    /\ Ended
    /\ error.what = "Record not found"

\* C3: without --keeper-uid and with --username or --keychain_service missing
\* or empty, main ends in parser.error (status 2) before any secret store
\* lookup, any prompt and any HTTP request.
NoSourceGiven ==
    /\ ~Truthy(args.keeper_uid)
    /\ ~(Truthy(args.username) /\ Truthy(args.keychain_service))

\* C3: with no complete source, the run ends in parser.error before any call.
C3_FailsBeforeAnyCall ==
    NoSourceGiven =>
        /\ log = <<>>
        /\ done = <<>>
        /\ pc \in {"parse_args", "credentials", "exit"}
        /\ Ended => exit_status = 2 /\ error.type = "SystemExit"
        /\ ~api_key.some

C3_Witness ==
    /\ Truthy(args.username)
    /\ args.keychain_service = Some(<<>>)
    /\ ~Truthy(args.keeper_uid)
    /\ Ended
    /\ error.what = "You must provide either --keeper-uid OR both --username and --keychain_service"

\* C4: a directions response with status 200 and a missing or empty routes
\* list makes get_route_and_distance raise the no-routes error; the static map
\* request is never sent, no temporary file is created and no document is
\* written.
EmptyRoutesAnswer ==
    /\ response.status_code = StatusOk
    /\ response.json
    /\ ~response.has_routes \/ response.routes = <<>>

\* C4: an answer without routes ends the run with the no-routes error before
\* any later stage.
C4_NoRouteStopsRun ==
    EmptyRoutesAnswer =>
        /\ Ended
        /\ exit_status = 1
        /\ error.what = "No routes found"
        /\ Range(log) \cap {"staticmap", "tempfile", "pdf_output"} = {}
        /\ temp_files = {}
        /\ documents = {}

C4_Witness ==
    /\ EmptyRoutesAnswer
    /\ response.has_routes
    /\ Ended

\* C5: a status other than 200 from either endpoint ends the run with an error
\* carrying that status and the response body; no later stage runs: after a
\* failed directions call no static map request, and after either failure no
\* temporary file and no document.
FailedAnswer == response.status_code \notin {0, StatusOk}

\* C5: a failure status ends the run with an error carrying status and body,
\* before any later stage.
C5_ServiceErrorStopsRun ==
    FailedAnswer =>
        /\ Ended
        /\ exit_status = 1
        /\ error.status = response.status_code
        /\ error.body = response.text
        /\ error.what \in {"Error fetching directions", "Error generating map"}
        /\ error.what = "Error fetching directions" => "staticmap" \notin Range(log)
        /\ Range(log) \cap {"tempfile", "pdf_output"} = {}
        /\ temp_files = {}
        /\ documents = {}

C5_Witness ==
    /\ FailedAnswer
    /\ error.what = "Error generating map"
    /\ error.status = 403
    /\ Ended

\* C8: every run terminates; it prints "PDF generated" and exits with status 0
\* exactly when credential resolution, the directions call, the static map
\* call and the document write succeeded, in that order; any failure ends the
\* run with a non-zero status, no stage is run twice and no document is left
\* at the output path.
AllStages == <<"credential", "directions", "static_map", "document">>

PrintedGenerated ==
    \E i \in DOMAIN stdout : stdout[i] = Generated(output_file.val)

C8_Outcome ==
    /\ \A e \in Range(log) : Count(log, e) = 1
    /\ \A e \in Range(done) : Count(done, e) = 1
    /\ PrintedGenerated => Ended
    /\ Ended =>
          /\ exit_status \in {0, 1, 2}
          /\ exit_status = 0 <=> done = AllStages
          /\ exit_status = 0 <=> PrintedGenerated
          /\ exit_status = 0 <=> error = NoError
          /\ exit_status # 0 => documents = {}
          /\ exit_status = 0 => documents = {[path |-> output_file.val, run |-> run]}

\* C8: the outcome above holds throughout, and the run ends.
C8_RunTerminates == []C8_Outcome /\ <>Ended

C8_Witness ==
    /\ Ended
    /\ exit_status = 0
    /\ done = AllStages

\* C6 as claimed: for every output name given with --output or typed at the
\* prompt, the path handed to create_pdf ends in ".pdf".
C6_EndsInPdf ==
    (pc = "create_pdf" /\ output_file.some) => EndsWith(output_file.val, PdfSuffix)

\* C6 as amended: the final path component of the name handed to create_pdf
\* ends in ".pdf" in any letter case.  The name is rewritten, to a path ending
\* in lower-case ".pdf" and with the notice printed, exactly when its final
\* component is not some text followed by ".pdf" in any letter case;
\* otherwise it is handed over as given and nothing is printed.  A name
\* without a final component ("." or "/") ends the run with ValueError.
HasPdfExtension(name) ==
    LET last == PathName(Path(name))
    IN Len(last) > Len(PdfSuffix) /\ EndsWith(Lower(last), PdfSuffix)

C6_StepOk ==
    (pc = "validate" /\ pc' # "validate" /\ output_file.some) =>
        LET name == output_file.val
        IN IF HasPdfExtension(name)
           THEN /\ pc' = "create_pdf"
                /\ output_file' = output_file
                /\ stdout' = stdout
           ELSE IF PathName(Path(name)) = <<>>
           THEN /\ pc' = "exit"
                /\ error'.type = "ValueError"
                /\ exit_status' = 1
                /\ stdout' = stdout
           ELSE /\ pc' = "create_pdf"
                /\ output_file'.some
                /\ output_file' # output_file
                /\ EndsWith(output_file'.val, PdfSuffix)
                /\ HasPdfExtension(output_file'.val)
                /\ stdout' = Append(stdout, Notice(output_file'.val))

\* C6 as amended: every step that settles a given output name (lines 181-185)
\* is as described above.
C6_PdfExtensionAnyCase == [][C6_StepOk]_vars

C6_Witness ==
    /\ pc = "create_pdf"
    /\ args.output = None
    /\ output_file = Some(<<"d", ".", "p", "d", "f">>)
    /\ stdout = <<Notice(<<"d", ".", "p", "d", "f">>)>>

\* C7 as claimed: without --output and with a blank line at the prompt the
\* document goes to route_map_<timestamp>.pdf, and two distinct runs never get
\* the same generated name, so neither overwrites the other's document.
GeneratedNamesDiffer ==
    \A a \in auto_names, b \in auto_names : a.run # b.run => a.name # b.name

\* C7: generated names differ between runs, and a document under a generated
\* name is the one written by the run that generated the name.
C7_UniquePerRun ==
    /\ GeneratedNamesDiffer
    /\ \A a \in auto_names :
          \A d \in documents : d.path = a.name => d.run = a.run

\* C9 as claimed: for a record that was found, the key is the first populated
\* of the password, the notes and the custom fields of type note, text or
\* multiline, in list order; the lookup fails exactly when none is populated;
\* a field holding only whitespace is not populated.
NotFoundInRecord == "Could not find password or note in Keeper record"

RecordFetched ==
    /\ pc # "credentials"
    /\ api_key.some \/ error.what = NotFoundInRecord

NonBlank(s) == \E i \in DOMAIN s : ~IsSpace(s[i])

ClaimedCandidates ==
    (IF record.password.some /\ NonBlank(record.password.val)
     THEN <<record.password.val>> ELSE <<>>)
    \o (IF record.notes.some /\ NonBlank(record.notes.val)
        THEN <<record.notes.val>> ELSE <<>>)
    \o [i \in 1..Len(SelectSeq(record.custom_fields,
                               LAMBDA f : f.type \in {"note", "text", "multiline"}
                                          /\ NonBlank(f.value)))
          |-> SelectSeq(record.custom_fields,
                        LAMBDA f : f.type \in {"note", "text", "multiline"}
                                   /\ NonBlank(f.value))[i].value]

\* C9 as claimed: the key is the first field that holds more than whitespace.
C9_WhitespaceNeverPopulated ==
    RecordFetched =>
        IF ClaimedCandidates = <<>>
        THEN ~api_key.some /\ error.what = NotFoundInRecord
        ELSE api_key.some /\ Strip(api_key.val) = Strip(ClaimedCandidates[1])

\* C9 as amended: the key is the password when it is not empty, whitespace
\* included; else the notes stripped, when they hold more than whitespace;
\* else the value of the first custom field of type note, text or multiline
\* whose value is not empty, whitespace included; the lookup fails exactly
\* when there is none of these.
FreeTextFields ==
    {i \in DOMAIN record.custom_fields :
        /\ record.custom_fields[i].type \in {"note", "text", "multiline"}
        /\ Len(record.custom_fields[i].value) > 0}

HasPassword == record.password.some /\ Len(record.password.val) > 0
HasNotes == record.notes.some /\ NonBlank(record.notes.val)

\* C9 as amended: the key is the first populated field, where only the notes
\* are tested for holding more than whitespace.
C9_FirstPopulatedField ==
    RecordFetched =>
        /\ HasPassword => api_key = record.password
        /\ (~HasPassword /\ HasNotes) =>
              /\ api_key.some
              /\ NonBlank(api_key.val)
              /\ ~IsSpace(Head(api_key.val))
              /\ ~IsSpace(api_key.val[Len(api_key.val)])
              /\ \E i, j \in DOMAIN record.notes.val :
                    /\ api_key.val = SubSeq(record.notes.val, i, j)
                    /\ \A k \in DOMAIN record.notes.val :
                          (k < i \/ k > j) => IsSpace(record.notes.val[k])
        /\ (~HasPassword /\ ~HasNotes /\ FreeTextFields # {}) =>
              \E i \in FreeTextFields :
                 /\ \A j \in FreeTextFields : i <= j
                 /\ api_key = Some(record.custom_fields[i].value)
        /\ (~HasPassword /\ ~HasNotes /\ FreeTextFields = {}) =>
              /\ ~api_key.some
              /\ error.what = NotFoundInRecord
              /\ exit_status = 1
        /\ api_key.some => done = <<"credential">> /\ pc = "output"

C9_Witness ==
    /\ RecordFetched
    /\ record.password = Some(<<>>)
    /\ record.notes = Some(<<" ">>)
    /\ Len(record.custom_fields) = 2
    /\ record.custom_fields[1] = [type |-> "secret", value |-> <<"c">>]
    /\ record.custom_fields[2] = [type |-> "multiline", value |-> <<" ">>]
    /\ api_key = Some(<<" ">>)

\* C10: for a leg of m meters the document shows m/1000 km, a one-way cost of
\* that distance times 0.3 and a return cost of twice the one-way cost, each
\* to two decimals (within half a hundredth of the value); before rounding the
\* return cost is exactly twice the one-way cost.
Abs(x) == IF x < 0 THEN 0 - x ELSE x

\* the hundredths h shown for the value num/den are a rounding of it
WithinHalfHundredth(h, num, den) == 2 * Abs(h * den - 100 * num) <= den

LegMeters == response.routes[1]

\* C10: distance, one-way cost and return cost are m/1000, that times 0.3 and
\* that times 2, and each is shown rounded to two decimals.
C10_CostArithmetic ==
    /\ pc = "cost" =>
          /\ distance.den > 0
          /\ 1000 * distance.num = LegMeters * distance.den
    /\ pc = "static_map" =>
          /\ 1000 * distance.num = LegMeters * distance.den
          /\ 10000 * estimated_cost.num = 3 * LegMeters * estimated_cost.den
    /\ pc \in {"static_map", "layout", "temp_file"} =>
          /\ 10 * estimated_cost.num * distance.den
                = 3 * distance.num * estimated_cost.den
          /\ return_trip_cost.num * estimated_cost.den
                = 2 * estimated_cost.num * return_trip_cost.den
    /\ pdf.cells # <<>> =>
          /\ Len(pdf.cells) = 3
          /\ WithinHalfHundredth(pdf.cells[1], distance.num, distance.den)
          /\ WithinHalfHundredth(pdf.cells[2], 3 * distance.num, 10 * distance.den)
          /\ WithinHalfHundredth(pdf.cells[3], 6 * distance.num, 10 * distance.den)

C10_Witness ==
    /\ pc = "temp_file"
    /\ distance = Rat(25, 1000)
    /\ pdf.cells = <<3, 1, 2>>

====
